---------------------------- MODULE Spec2Model ----------------------------
(* A model of package middlewarechain (chain.go): the composition loop of  *)
(* Chain, the closures the middlewares return, and the invocation of the   *)
(* composed handler by one or more requests, frame by frame.               *)
(*                                                                         *)
(* A handler value is a tuple: <<d>> is the plain function described by d, *)
(* <<d, next>> is the closure a middleware d returned when it was applied  *)
(* to the handler next (the closure captures next). <<>> is the nil        *)
(* handler of a route that has not been composed yet.                      *)
EXTENDS Integers, Sequences, FiniteSets, TLC

VARIABLES
    h,                \* the terminal handler handed to Chain
    middlewares,      \* the middleware sequence handed to Chain
    split,            \* where the sequence is cut for the nested route, or NoSplit
    setupPc,          \* which Chain call the setup is at: direct, inner, outer, serve
    chainPc,          \* position inside Chain: idle, loop
    chainH,           \* Chain's parameter h
    chainM,           \* Chain's parameter middlewares
    i,                \* Chain's loop index (Go index, 0-based)
    aggregateHandler, \* Chain's named result
    applied,          \* history: the Go indices Chain applied, per route
    direct,           \* the route Chain(h, middlewares...)
    inner,            \* Chain(h, S...) of the nested route
    nested,           \* the route Chain(Chain(h, S...), P...)
    req,              \* per request: the route it is sent to and its Authorization token
    state,            \* per request: idle, running, done, panicked
    stack,            \* per request: its call stack of handler frames
    w,                \* per request: its ResponseRecorder
    logged,           \* per request: the lines its layers gave to log.Printf
    trace,            \* history, per request: the layers whose body began to execute
    panicking,        \* per request: the value of the panic in flight, or NoPanic
    outcome           \* per request: the panic value that reached the caller, or NoPanic

vars == <<h, middlewares, split, setupPc, chainPc, chainH, chainM, i,
          aggregateHandler, applied, direct, inner, nested,
          req, state, stack, w, logged, trace, panicking, outcome>>

setupVars == <<h, middlewares, split, setupPc, chainPc, chainH, chainM, i,
               aggregateHandler, applied, direct, inner, nested>>

-----------------------------------------------------------------------------
(* Bounds *)

MaxLen == 3

NoSplit == 0 - 1

NoPanic == "none"

-----------------------------------------------------------------------------
(* Status codes *)

StatusOK == 200

StatusUnauthorized == 401

StatusTooManyRequests == 429

StatusInternalServerError == 500

-----------------------------------------------------------------------------
(* The middlewares and handlers of the tests and of the README *)

prefixMiddleware(prefix) == [kind |-> "prefix", id |-> prefix]

middlewareFn1 == [kind |-> "ctx", id |-> "M1"]

middlewareFn2 == [kind |-> "ctx", id |-> "M2"]

LoggingMiddleware(name) == [kind |-> "logging", id |-> name]

AuthMiddleware == [kind |-> "auth", id |-> "Auth"]

RateLimitMiddleware == [kind |-> "ratelimit", id |-> "RateLimit"]

RecoveryMiddleware == [kind |-> "recovery", id |-> "Recovery"]

\* A caller-supplied Middleware whose handler panics before it calls next.
PanicMiddleware == [kind |-> "panic", id |-> "Boom"]

handler == [kind |-> "hwrite", id |-> "Handler"]

handlerFnStatus == [kind |-> "hstatus", id |-> "Handler"]

handlerFnCtx == [kind |-> "hctx", id |-> "Handler"]

ContextKeys == {"M1", "M2"}

\* Value(key) of a context that holds no value for key: nil.
NilValue == <<>>

\* context.Background(): no key has a value.
Background == [k \in ContextKeys |-> NilValue]

\* The derived context forgets what its parent holds.
WithValueFresh(parent, key, val) == [Background EXCEPT ![key] = val]

\* context.WithValue(parent, key, val): a derived context; parent is unchanged.
WithValue(parent, key, val) == [parent EXCEPT ![key] = val]

\* Value1 = string(middlewareKey1) + " >> ", as the pieces of the string.
ValueOf(key) == <<key, " >> ">>

-----------------------------------------------------------------------------
(* httptest.ResponseRecorder *)

NewRecorder == [code |-> StatusOK, wroteHeader |-> FALSE, body |-> <<>>]

WriteHeader(rw, code) ==
    IF rw.wroteHeader THEN rw
    ELSE [rw EXCEPT !.code = code, !.wroteHeader = TRUE]

Write(rw, buf) ==
    LET rh == WriteHeader(rw, StatusOK)
    IN  [rh EXCEPT !.body = @ \o buf]

\* http.Error(w, msg, code): the status, then the message (with its newline,
\* one piece of the body).
Error(rw, msg, code) == Write(WriteHeader(rw, code), <<msg>>)

-----------------------------------------------------------------------------
(* Chain *)

\* middlewares[i](aggregateHandler): the closure the middleware returns.
Wrap(m, next) == <<m, next>>

\* Chain puts a layer of its own around h.
ChainStartWrapped(hh) == Wrap(prefixMiddleware("A"), hh)

\* Chain puts a recovery boundary of its own around h.
ChainStartRecovering(hh) == Wrap(RecoveryMiddleware, hh)

\* aggregateHandler = h
ChainStart(hh) == hh

\* The loop starts one element short of the end.
LoopInitSkipLast(mws) == Len(mws) - 2

\* i := len(middlewares) - 1
LoopInit(mws) == Len(mws) - 1

\* The loop stops one element short of the start.
LoopCondSkipFirst(idx) == idx > 0

\* i >= 0
LoopCond(idx) == idx >= 0

\* The fold takes the elements from the front: the last one ends outermost.
LoopBodyForward(agg, mws, idx) == Wrap(mws[Len(mws) - idx], agg)

\* The fold leaves out a middleware that occurs again further on.
LoopBodyDedup(agg, mws, idx) ==
    IF \E j \in (idx + 2)..Len(mws) : mws[j] = mws[idx + 1]
    THEN agg
    ELSE Wrap(mws[idx + 1], agg)

\* aggregateHandler = middlewares[i](aggregateHandler)
LoopBody(agg, mws, idx) == Wrap(mws[idx + 1], agg)

\* i--
LoopStep(idx) == idx - 1

\* The arguments of the Chain call the setup is at.
ChainArgs ==
    CASE setupPc = "direct" -> [h |-> <<h>>, m |-> middlewares]
      [] setupPc = "inner"  ->
            [h |-> <<h>>, m |-> SubSeq(middlewares, split + 1, Len(middlewares))]
      [] setupPc = "outer"  -> [h |-> inner, m |-> SubSeq(middlewares, 1, split)]

ChainEnter ==
    /\ setupPc \in {"direct", "inner", "outer"}
    /\ chainPc = "idle"
    /\ chainH' = ChainArgs.h
    /\ chainM' = ChainArgs.m
    /\ aggregateHandler' = ChainStart(ChainArgs.h)
    /\ i' = LoopInit(ChainArgs.m)
    /\ chainPc' = "loop"
    /\ applied' = [applied EXCEPT ![setupPc] = <<>>]
    /\ UNCHANGED <<h, middlewares, split, setupPc, direct, inner, nested>>
    /\ UNCHANGED <<req, state, stack, w, logged, trace, panicking, outcome>>

ChainLoop ==
    /\ chainPc = "loop"
    /\ LoopCond(i)
    /\ aggregateHandler' = LoopBody(aggregateHandler, chainM, i)
    /\ applied' = [applied EXCEPT ![setupPc] = Append(@, i)]
    /\ i' = LoopStep(i)
    /\ UNCHANGED <<h, middlewares, split, setupPc, chainPc, chainH, chainM,
                   direct, inner, nested>>
    /\ UNCHANGED <<req, state, stack, w, logged, trace, panicking, outcome>>

ChainReturn ==
    /\ chainPc = "loop"
    /\ ~LoopCond(i)
    /\ chainPc' = "idle"
    /\ direct' = IF setupPc = "direct" THEN aggregateHandler ELSE direct
    /\ inner'  = IF setupPc = "inner"  THEN aggregateHandler ELSE inner
    /\ nested' = IF setupPc = "outer"  THEN aggregateHandler ELSE nested
    /\ setupPc' = CASE setupPc = "direct" /\ split = NoSplit -> "serve"
                    [] setupPc = "direct" /\ split # NoSplit -> "inner"
                    [] setupPc = "inner" -> "outer"
                    [] setupPc = "outer" -> "serve"
    /\ UNCHANGED <<h, middlewares, split, chainH, chainM, i, aggregateHandler, applied>>
    /\ UNCHANGED <<req, state, stack, w, logged, trace, panicking, outcome>>

-----------------------------------------------------------------------------
(* Invocation of a composed handler *)

Requests == DOMAIN req

Top(r) == stack[r][Len(stack[r])]

\* The layer whose function body the top frame of r is about to execute.
AtBodyOf(r, kinds) ==
    /\ state[r] = "running"
    /\ panicking[r] = NoPanic
    /\ stack[r] # <<>>
    /\ Top(r).pc = "pre"
    /\ Top(r).fn[1].kind \in kinds

AtBody(r, kind) == AtBodyOf(r, {kind})

TerminalKinds == {"hwrite", "hstatus", "hctx"}

\* next.ServeHTTP(w, r) / next(w, r): the caller waits in "post".
CallNext(stk, ctx) ==
    LET n   == Len(stk)
        top == stk[n]
    IN  Append([stk EXCEPT ![n].pc = "post"],
               [fn |-> top.fn[2], ctx |-> ctx, pc |-> "pre"])

\* return: the frame is popped.
Pop(stk) == SubSeq(stk, 1, Len(stk) - 1)

StateAfterPop(r) == IF Len(stack[r]) = 1 THEN "done" ELSE state[r]

Enter(r) == [trace EXCEPT ![r] = Append(@, Top(r).fn[1].id)]

\* handler.ServeHTTP(w, r) on a fresh recorder and request.
Start(r) ==
    /\ setupPc = "serve"
    /\ state[r] = "idle"
    /\ state' = [state EXCEPT ![r] = "running"]
    /\ stack' = [stack EXCEPT ![r] =
                    <<[fn  |-> IF req[r].route = "direct" THEN direct ELSE nested,
                       ctx |-> Background,
                       pc  |-> "pre"]>>]
    /\ UNCHANGED <<req, w, logged, trace, panicking, outcome>>
    /\ UNCHANGED setupVars

prefixServe(r) ==
    /\ AtBody(r, "prefix")
    /\ trace' = Enter(r)
    /\ w' = [w EXCEPT ![r] = Write(@, <<Top(r).fn[1].id>>)]
    /\ stack' = [stack EXCEPT ![r] = CallNext(@, Top(r).ctx)]
    /\ UNCHANGED <<req, state, logged, panicking, outcome>>
    /\ UNCHANGED setupVars

ctxServe(r) ==
    /\ AtBody(r, "ctx")
    /\ trace' = Enter(r)
    /\ LET key == Top(r).fn[1].id
           ctx == WithValue(Top(r).ctx, key, ValueOf(key))
       IN  stack' = [stack EXCEPT ![r] = CallNext(@, ctx)]
    /\ UNCHANGED <<req, state, w, logged, panicking, outcome>>
    /\ UNCHANGED setupVars

loggingServe(r) ==
    /\ AtBody(r, "logging")
    /\ trace' = Enter(r)
    /\ logged' = [logged EXCEPT ![r] = Append(@, <<Top(r).fn[1].id, "before">>)]
    /\ stack' = [stack EXCEPT ![r] = CallNext(@, Top(r).ctx)]
    /\ UNCHANGED <<req, state, w, panicking, outcome>>
    /\ UNCHANGED setupVars

authServe(r) ==
    /\ AtBody(r, "auth")
    /\ trace' = Enter(r)
    /\ IF req[r].token = ""
       THEN /\ w' = [w EXCEPT ![r] = Error(@, "Unauthorized", StatusUnauthorized)]
            /\ stack' = [stack EXCEPT ![r] = Pop(@)]
            /\ state' = [state EXCEPT ![r] = StateAfterPop(r)]
       ELSE /\ stack' = [stack EXCEPT ![r] = CallNext(@, Top(r).ctx)]
            /\ UNCHANGED <<w, state>>
    /\ UNCHANGED <<req, logged, panicking, outcome>>
    /\ UNCHANGED setupVars

\* limiter.Allow() depends on the clock and on every other request of the
\* route: either answer is possible.
rateLimitServe(r) ==
    /\ AtBody(r, "ratelimit")
    /\ trace' = Enter(r)
    /\ \E allow \in BOOLEAN :
         IF ~allow
         THEN /\ w' = [w EXCEPT ![r] =
                         Error(@, "Rate limit exceeded", StatusTooManyRequests)]
              /\ stack' = [stack EXCEPT ![r] = Pop(@)]
              /\ state' = [state EXCEPT ![r] = StateAfterPop(r)]
         ELSE /\ stack' = [stack EXCEPT ![r] = CallNext(@, Top(r).ctx)]
              /\ UNCHANGED <<w, state>>
    /\ UNCHANGED <<req, logged, panicking, outcome>>
    /\ UNCHANGED setupVars

\* defer func() { recover() ... }(); next(w, r)
recoveryServe(r) ==
    /\ AtBody(r, "recovery")
    /\ trace' = Enter(r)
    /\ stack' = [stack EXCEPT ![r] = CallNext(@, Top(r).ctx)]
    /\ UNCHANGED <<req, state, w, logged, panicking, outcome>>
    /\ UNCHANGED setupVars

panicServe(r) ==
    /\ AtBody(r, "panic")
    /\ trace' = Enter(r)
    /\ panicking' = [panicking EXCEPT ![r] = Top(r).fn[1].id]
    /\ UNCHANGED <<req, state, stack, w, logged, outcome>>
    /\ UNCHANGED setupVars

\* What the terminal handler d does to recorder rw given context ctx:
\* the recorder afterwards and the panic it raises, if any.
ServeTerminal(d, rw, ctx) ==
    CASE d.kind = "hwrite"  -> [w |-> Write(rw, <<d.id>>), panic |-> NoPanic]
      [] d.kind = "hstatus" ->
            [w |-> Write(WriteHeader(rw, StatusOK), <<d.id>>), panic |-> NoPanic]
      [] d.kind = "hctx"    ->
            IF \E k \in ContextKeys : ctx[k] = NilValue
            THEN [w |-> rw, panic |-> "interface conversion"]
            ELSE [w |-> Write(WriteHeader(rw, StatusOK),
                              ctx["M1"] \o ctx["M2"] \o <<d.id>>),
                  panic |-> NoPanic]

handlerServe(r) ==
    /\ AtBodyOf(r, TerminalKinds)
    /\ trace' = Enter(r)
    /\ LET res == ServeTerminal(Top(r).fn[1], w[r], Top(r).ctx)
       IN  /\ w' = [w EXCEPT ![r] = res.w]
           /\ panicking' = [panicking EXCEPT ![r] = res.panic]
           /\ IF res.panic = NoPanic
              THEN /\ stack' = [stack EXCEPT ![r] = Pop(@)]
                   /\ state' = [state EXCEPT ![r] = StateAfterPop(r)]
              ELSE UNCHANGED <<stack, state>>
    /\ UNCHANGED <<req, logged, outcome>>
    /\ UNCHANGED setupVars

\* The callee returned: the layer runs what follows its call of next, returns.
Return(r) ==
    /\ state[r] = "running"
    /\ panicking[r] = NoPanic
    /\ stack[r] # <<>>
    /\ Top(r).pc = "post"
    /\ logged' = IF Top(r).fn[1].kind = "logging"
                 THEN [logged EXCEPT ![r] = Append(@, <<Top(r).fn[1].id, "after">>)]
                 ELSE logged
    /\ stack' = [stack EXCEPT ![r] = Pop(@)]
    /\ state' = [state EXCEPT ![r] = StateAfterPop(r)]
    /\ UNCHANGED <<req, w, trace, panicking, outcome>>
    /\ UNCHANGED setupVars

\* A frame that deferred recover() ends the panic.
Deferred(f) == f.fn[1].kind = "recovery" /\ f.pc = "post"

\* recover() in RecoveryMiddleware's deferred function; the layer then returns.
Recover(r) ==
    /\ state[r] = "running"
    /\ panicking[r] # NoPanic
    /\ stack[r] # <<>>
    /\ Deferred(Top(r))
    /\ logged' = [logged EXCEPT ![r] = Append(@, <<"Panic recovered", panicking[r]>>)]
    /\ w' = [w EXCEPT ![r] =
                Error(@, "Internal Server Error", StatusInternalServerError)]
    /\ panicking' = [panicking EXCEPT ![r] = NoPanic]
    /\ stack' = [stack EXCEPT ![r] = Pop(@)]
    /\ state' = [state EXCEPT ![r] = StateAfterPop(r)]
    /\ UNCHANGED <<req, trace, outcome>>
    /\ UNCHANGED setupVars

\* The panic unwinds a frame that recovers nothing; past the outermost frame
\* it reaches the caller of ServeHTTP.
PanicPropagate(r) ==
    /\ state[r] = "running"
    /\ panicking[r] # NoPanic
    /\ stack[r] # <<>>
    /\ ~Deferred(Top(r))
    /\ stack' = [stack EXCEPT ![r] = Pop(@)]
    /\ IF Len(stack[r]) = 1
       THEN /\ state' = [state EXCEPT ![r] = "panicked"]
            /\ outcome' = [outcome EXCEPT ![r] = panicking[r]]
       ELSE UNCHANGED <<state, outcome>>
    /\ UNCHANGED <<req, w, logged, trace, panicking>>
    /\ UNCHANGED setupVars

-----------------------------------------------------------------------------
(* Specifications *)

SeqsUpTo(S, n) == UNION {[1..k -> S] : k \in 0..n}

SetupInit ==
    /\ setupPc = "direct"
    /\ chainPc = "idle"
    /\ chainH = <<>>
    /\ chainM = <<>>
    /\ i = 0
    /\ aggregateHandler = <<>>
    /\ applied = [c \in {"direct", "inner", "outer"} |-> <<>>]
    /\ direct = <<>>
    /\ inner = <<>>
    /\ nested = <<>>

RequestInit ==
    /\ state = [r \in Requests |-> "idle"]
    /\ stack = [r \in Requests |-> <<>>]
    /\ w = [r \in Requests |-> NewRecorder]
    /\ logged = [r \in Requests |-> <<>>]
    /\ trace = [r \in Requests |-> <<>>]
    /\ panicking = [r \in Requests |-> NoPanic]
    /\ outcome = [r \in Requests |-> NoPanic]

Tokens == {"", "tok"}

\* One request to Chain(h, middlewares...), the middlewares of the tests and
\* of the README's quick start.
Init ==
    /\ h \in {handler, handlerFnStatus}
    /\ middlewares \in SeqsUpTo({prefixMiddleware("A"), prefixMiddleware("B"),
                                 LoggingMiddleware("L1"), LoggingMiddleware("L2"),
                                 AuthMiddleware, RateLimitMiddleware}, MaxLen)
    /\ split = NoSplit
    /\ req \in {[r \in {1} |-> [route |-> "direct", token |-> t]] : t \in Tokens}
    /\ SetupInit
    /\ RequestInit

Next ==
    \/ ChainEnter
    \/ ChainLoop
    \/ ChainReturn
    \/ \E r \in Requests : Start(r)
    \/ \E r \in Requests : prefixServe(r)
    \/ \E r \in Requests : loggingServe(r)
    \/ \E r \in Requests : authServe(r)
    \/ \E r \in Requests : rateLimitServe(r)
    \/ \E r \in Requests : handlerServe(r)
    \/ \E r \in Requests : Return(r)

Spec == Init /\ [][Next]_vars

\* One request to Chain(handlerFn, ...) of "Multiple middlewares", whose
\* handler reads both context keys.
InitContext ==
    /\ h = handlerFnCtx
    /\ middlewares \in SeqsUpTo({middlewareFn1, middlewareFn2,
                                 prefixMiddleware("A"), AuthMiddleware}, MaxLen)
    /\ split = NoSplit
    /\ req \in {[r \in {1} |-> [route |-> "direct", token |-> t]] : t \in Tokens}
    /\ SetupInit
    /\ RequestInit

NextContext ==
    \/ ChainEnter
    \/ ChainLoop
    \/ ChainReturn
    \/ \E r \in Requests : Start(r)
    \/ \E r \in Requests : prefixServe(r)
    \/ \E r \in Requests : ctxServe(r)
    \/ \E r \in Requests : authServe(r)
    \/ \E r \in Requests : handlerServe(r)
    \/ \E r \in Requests : Return(r)
    \/ \E r \in Requests : PanicPropagate(r)

SpecContext == InitContext /\ [][NextContext]_vars

\* One request to a chain in which a layer or the handler may panic and a
\* RecoveryMiddleware may be among the layers.
InitFailure ==
    /\ h \in {handler, handlerFnCtx}
    /\ middlewares \in SeqsUpTo({RecoveryMiddleware, PanicMiddleware,
                                 prefixMiddleware("A"), LoggingMiddleware("L1")},
                                MaxLen)
    /\ split = NoSplit
    /\ req = [r \in {1} |-> [route |-> "direct", token |-> "tok"]]
    /\ SetupInit
    /\ RequestInit

NextFailure ==
    \/ ChainEnter
    \/ ChainLoop
    \/ ChainReturn
    \/ \E r \in Requests : Start(r)
    \/ \E r \in Requests : prefixServe(r)
    \/ \E r \in Requests : loggingServe(r)
    \/ \E r \in Requests : recoveryServe(r)
    \/ \E r \in Requests : panicServe(r)
    \/ \E r \in Requests : handlerServe(r)
    \/ \E r \in Requests : Return(r)
    \/ \E r \in Requests : Recover(r)
    \/ \E r \in Requests : PanicPropagate(r)

SpecFailure == InitFailure /\ [][NextFailure]_vars

\* The sequence is cut at every place into a prefix P and a suffix S; request
\* 1 goes to Chain(h, P ++ S), request 2 to Chain(Chain(h, S...), P...).
InitSplit ==
    /\ h = handler
    /\ middlewares \in SeqsUpTo({prefixMiddleware("A"), prefixMiddleware("B"),
                                 AuthMiddleware}, MaxLen)
    /\ split \in 0..Len(middlewares)
    /\ req \in {[r \in {1, 2} |->
                    [route |-> IF r = 1 THEN "direct" ELSE "nested", token |-> t]] :
                t \in Tokens}
    /\ SetupInit
    /\ RequestInit

NextSplit ==
    \/ ChainEnter
    \/ ChainLoop
    \/ ChainReturn
    \/ \E r \in Requests : Start(r)
    \/ \E r \in Requests : prefixServe(r)
    \/ \E r \in Requests : authServe(r)
    \/ \E r \in Requests : handlerServe(r)
    \/ \E r \in Requests : Return(r)

SpecSplit == InitSplit /\ [][NextSplit]_vars

\* Two requests, each with its own token, to the one handler composed once;
\* their steps interleave in every way.
InitConcurrent ==
    /\ h = handler
    /\ middlewares \in SeqsUpTo({prefixMiddleware("A"), middlewareFn1,
                                 AuthMiddleware}, MaxLen)
    /\ split = NoSplit
    /\ req \in [{1, 2} -> {[route |-> "direct", token |-> t] : t \in Tokens}]
    /\ SetupInit
    /\ RequestInit

NextConcurrent ==
    \/ ChainEnter
    \/ ChainLoop
    \/ ChainReturn
    \/ \E r \in Requests : Start(r)
    \/ \E r \in Requests : prefixServe(r)
    \/ \E r \in Requests : ctxServe(r)
    \/ \E r \in Requests : authServe(r)
    \/ \E r \in Requests : handlerServe(r)
    \/ \E r \in Requests : Return(r)

SpecConcurrent == InitConcurrent /\ [][NextConcurrent]_vars

-----------------------------------------------------------------------------
(* Properties *)

RECURSIVE Layers(_)
\* The layers of a handler value, outermost first, the plain function last.
Layers(c) == IF Len(c) = 1 THEN <<c[1]>> ELSE <<c[1]>> \o Layers(c[2])

RECURSIVE Nest(_, _)
\* m1(m2(...mn(hh)...)) written out by hand.
Nest(mws, hh) ==
    IF mws = <<>> THEN hh ELSE <<Head(mws), Nest(Tail(mws), hh)>>

Ids(ds) == [j \in 1..Len(ds) |-> ds[j].id]

IsPrefix(s, t) == Len(s) <= Len(t) /\ s = SubSeq(t, 1, Len(s))

IsPrefixKind(m) == m.kind = "prefix"

AllOfKind(kind) == \A j \in 1..Len(middlewares) : middlewares[j].kind = kind

N == Len(middlewares)

\* The ids of m1, ..., mn, h in that order.
AllIds == Ids(middlewares) \o <<h.id>>

\* What the prefix middlewares among m1..mk write, in order.
Markers(k) == Ids(SelectSeq(SubSeq(middlewares, 1, k), IsPrefixKind))

\* Whether layer mk of the sequence refuses request r for its missing token.
AuthRejects(r, k) == middlewares[k].kind = "auth" /\ req[r].token = ""

ErrorText(m) == IF m.kind = "auth" THEN "Unauthorized" ELSE "Rate limit exceeded"

ErrorCode(m) ==
    IF m.kind = "auth" THEN StatusUnauthorized ELSE StatusTooManyRequests

\* C1: when every middleware writes its marker and then calls its inner
\* handler, one invocation of Chain(h, m1, ..., mn) writes the markers in the
\* order m1, ..., mn, h: at every moment what has been written and what has
\* executed is a beginning of that order, and at the end it is all of it.
C1_OrderingLaw ==
    \A r \in Requests :
        AllOfKind("prefix") =>
            /\ IsPrefix(w[r].body, AllIds)
            /\ IsPrefix(trace[r], AllIds)
            /\ state[r] = "done" => w[r].body = AllIds /\ trace[r] = AllIds

C1_Witness ==
    /\ N >= 2
    /\ AllOfKind("prefix")
    /\ middlewares[1] # middlewares[2]
    /\ state[1] = "done"
    /\ w[1].body = AllIds

\* C2: Chain(h) with no middlewares is h itself, and one invocation of it
\* leaves the response (status, header flag, body) that h leaves when called
\* directly on a fresh recorder and request, executes h alone and logs nothing.
C2_IdentityLaw ==
    N = 0 =>
        /\ setupPc = "serve" => direct = <<h>>
        /\ \A r \in Requests :
              /\ state[r] = "idle" => w[r] = NewRecorder
              /\ state[r] = "done" =>
                    /\ w[r] = ServeTerminal(h, NewRecorder, Background).w
                    /\ trace[r] = <<h.id>>
                    /\ logged[r] = <<>>

C2_Witness ==
    /\ N = 0
    /\ h = handlerFnStatus
    /\ state[1] = "done"
    /\ w[1].wroteHeader
    /\ w[1].body = <<"Handler">>

\* C3: the layers that execute are always m1, ..., mk for some k, each once
\* and in that order, then h; when mk refuses the request (no token) nothing
\* inward of mk ever executes; and when the invocation ends with mk the last
\* layer that executed, mk is a middleware that returned without calling its
\* inner handler and the response holds what m1..mk wrote and nothing else
\* (for k = 1: m1's error alone, nothing logged).
C3_ShortCircuitLaw ==
    \A r \in Requests :
        LET k == Len(trace[r])
        IN  /\ IsPrefix(trace[r], AllIds)
            /\ \A j \in 1..N : AuthRejects(r, j) => k <= j
            /\ (state[r] = "done" /\ k <= N) =>
                  /\ middlewares[k].kind \in {"auth", "ratelimit"}
                  /\ w[r].body = Markers(k - 1) \o <<ErrorText(middlewares[k])>>
                  /\ k = 1 => /\ logged[r] = <<>>
                              /\ w[r].code = ErrorCode(middlewares[1])

C3_Witness ==
    /\ N = 3
    /\ middlewares[1].kind = "prefix"
    /\ AuthRejects(1, 2)
    /\ state[1] = "done"
    /\ trace[1] = <<middlewares[1].id, "Auth">>
    /\ w[1].body = <<middlewares[1].id, "Unauthorized">>

\* C4: for every cut of the sequence into P and S, Chain(Chain(h, S), P) is
\* the same handler as Chain(h, P ++ S) and as the nesting m1(m2(...h))
\* written by hand, and a request to the one and a request with the same
\* token to the other end with the same response, layers executed and log.
C4_CompositionConsistency ==
    /\ setupPc \in {"inner", "outer", "serve"} => direct = Nest(middlewares, <<h>>)
    /\ setupPc = "serve" => nested = direct
    /\ (\A r \in Requests : state[r] = "done") =>
          /\ w[1] = w[2]
          /\ trace[1] = trace[2]
          /\ logged[1] = logged[2]

C4_Witness ==
    /\ N = 3
    /\ split = 1
    /\ middlewares[1] # middlewares[2]
    /\ req[1].route = "direct"
    /\ req[2].route = "nested"
    /\ state[1] = "done"
    /\ state[2] = "done"
    /\ Len(trace[2]) = N + 1

\* C5: when the terminal handler is about to execute, the request it
\* receives holds, for every middleware of the sequence that attaches a
\* value under its key, that value; with both keys attached the handler
\* answers 200 with the two values and its message.
C5_ContextPropagation ==
    \A r \in Requests :
        /\ AtBodyOf(r, TerminalKinds) =>
              \A j \in 1..N :
                  middlewares[j].kind = "ctx" =>
                      Top(r).ctx[middlewares[j].id] = ValueOf(middlewares[j].id)
        /\ (state[r] = "done" /\ Len(trace[r]) = N + 1) =>
              /\ \A key \in ContextKeys : \E j \in 1..N : middlewares[j].id = key
              /\ w[r].code = StatusOK
              /\ w[r].body = Markers(N) \o ValueOf("M1") \o ValueOf("M2") \o <<h.id>>

C5_Witness ==
    /\ middlewares = <<middlewareFn1, middlewareFn2>>
    /\ state[1] = "done"
    /\ w[1].body = <<"M1", " >> ", "M2", " >> ", "Handler">>

\* The outermost layer that panics when it executes: a PanicMiddleware, or
\* (position N + 1) a handler that asserts context values no layer attached;
\* 0 when no layer panics.
Panics(j) ==
    IF j <= N THEN middlewares[j].kind = "panic"
    ELSE /\ h.kind = "hctx"
         /\ \E key \in ContextKeys :
               \A m \in 1..N : ~(middlewares[m].kind = "ctx" /\ middlewares[m].id = key)

FirstPanic ==
    IF \E j \in 1..(N + 1) : Panics(j)
    THEN CHOOSE j \in 1..(N + 1) : Panics(j) /\ \A m \in 1..(j - 1) : ~Panics(m)
    ELSE 0

PanicValue(j) == IF j <= N THEN middlewares[j].id ELSE "interface conversion"

\* Whether the caller put a RecoveryMiddleware outward of layer p.
RecoveryBefore(p) == \E j \in 1..(p - 1) : middlewares[j].kind = "recovery"

\* C6: when layer mk or h panics, no layer inward of it ever executes; the
\* panic in flight is the value that was raised; it reaches the caller of the
\* composed handler, unchanged, exactly when the caller supplied no
\* RecoveryMiddleware outward of the failing layer, and otherwise the
\* invocation ends normally with that middleware's answer: Chain recovers
\* nothing itself.
C6_FailurePassThrough ==
    \A r \in Requests :
        LET p == FirstPanic
            k == Len(trace[r])
        IN  /\ IsPrefix(trace[r], AllIds)
            /\ p # 0 => k <= p
            /\ panicking[r] # NoPanic => k = p /\ panicking[r] = PanicValue(p)
            /\ state[r] = "panicked" =>
                  /\ p # 0
                  /\ ~RecoveryBefore(p)
                  /\ outcome[r] = PanicValue(p)
            /\ state[r] = "done" =>
                  /\ outcome[r] = NoPanic
                  /\ p = 0 \/ RecoveryBefore(p)
                  /\ p # 0 =>
                        /\ k = p
                        /\ w[r].body = Markers(p - 1) \o <<"Internal Server Error">>
                        /\ \E n \in 1..Len(logged[r]) :
                              logged[r][n] = <<"Panic recovered", PanicValue(p)>>

C6_Witness ==
    /\ N = 3
    /\ middlewares[1] = prefixMiddleware("A")
    /\ middlewares[2] = PanicMiddleware
    /\ state[1] = "panicked"
    /\ outcome[1] = "Boom"
    /\ trace[1] = <<"A", "Boom">>

ReadmeChain == <<LoggingMiddleware("L1"), AuthMiddleware, RateLimitMiddleware>>

Completed(r) == state[r] = "done" /\ Len(trace[r]) = N + 1

Befores(k) == [j \in 1..k |-> <<middlewares[j].id, "before">>]

\* The "after" lines of mn down to m(d+1), in order.
AftersDownTo(d) == [j \in 1..(N - d) |-> <<middlewares[N + 1 - j].id, "after">>]

\* C8: when every middleware logs before calling its inner handler and
\* after it returns, the log holds before(m1), ..., before(mk) while the
\* first k layers have begun, all n of them when h executes, and after h
\* the lines after(mn), ..., after(m1) follow as the layers return, the
\* outermost last.
C8_ProperNesting ==
    \A r \in Requests :
        AllOfKind("logging") =>
            LET k == Len(trace[r])
            IN  /\ k <= N => logged[r] = Befores(k)
                /\ k = N + 1 =>
                      logged[r] = Befores(N) \o AftersDownTo(Len(stack[r]))
                /\ state[r] = "done" =>
                      /\ logged[r] = Befores(N) \o AftersDownTo(0)
                      /\ trace[r] = AllIds
                      /\ w[r].body = <<h.id>>

C8_Witness ==
    /\ N >= 2
    /\ AllOfKind("logging")
    /\ middlewares[1] # middlewares[2]
    /\ state[1] = "done"
    /\ Len(logged[1]) = 2 * N

\* The Go indices n-1, ..., 0.
Descending(n) == [j \in 1..n |-> n - j]

\* C9: Chain applies middlewares[i] once for each i from the last index down
\* to the first, each time around the handler built so far, so the composed
\* handler has one layer per element in the order of the sequence, also for
\* an element that occurs several times; Chain(h, m, m) with a marker-writing
\* m writes the marker twice before h.
C9_NoDeduplication ==
    /\ chainPc = "loop" =>
          /\ applied[setupPc] = SubSeq(Descending(Len(chainM)), 1, Len(chainM) - 1 - i)
          /\ Layers(aggregateHandler) =
                SubSeq(chainM, i + 2, Len(chainM)) \o Layers(chainH)
    /\ setupPc = "serve" =>
          /\ applied["direct"] = Descending(N)
          /\ Layers(direct) = middlewares \o <<h>>
    /\ \A r \in Requests :
          (state[r] = "done" /\ AllOfKind("prefix")) =>
              /\ Len(w[r].body) = N + 1
              /\ \A j \in 1..N : w[r].body[j] = middlewares[j].id

C9_Witness ==
    /\ N = 2
    /\ middlewares[1] = middlewares[2]
    /\ middlewares[1] = prefixMiddleware("A")
    /\ state[1] = "done"
    /\ Len(Layers(direct)) = 3
    /\ w[1].body = <<"A", "A", "Handler">>

\* The first layer that ends a request with token tok: the first
\* AuthMiddleware when the token is missing, else h (position N + 1).
FirstStop(tok) ==
    IF tok = "" /\ \E j \in 1..N : middlewares[j].kind = "auth"
    THEN CHOOSE j \in 1..N :
            /\ middlewares[j].kind = "auth"
            /\ \A m \in 1..(j - 1) : middlewares[m].kind # "auth"
    ELSE N + 1

ExpectedTrace(tok) == SubSeq(AllIds, 1, FirstStop(tok))

ExpectedBody(tok) ==
    IF FirstStop(tok) <= N
    THEN Markers(FirstStop(tok) - 1) \o <<"Unauthorized">>
    ELSE Markers(N) \o <<h.id>>

\* C10: with two requests whose steps interleave in every way, each runs
\* the one handler Chain composed, which stays what Chain returned; each
\* executes m1, ..., mn, h in that order up to the layer that ends it for
\* its own token, and its response holds what those layers wrote for it and
\* nothing of the other request's.
C10_ConcurrentPassThrough ==
    /\ setupPc = "serve" => Layers(direct) = middlewares \o <<h>>
    /\ \A r \in Requests :
          /\ stack[r] # <<>> => stack[r][1].fn = direct
          /\ IsPrefix(trace[r], ExpectedTrace(req[r].token))
          /\ IsPrefix(w[r].body, ExpectedBody(req[r].token))
          /\ state[r] = "done" =>
                /\ trace[r] = ExpectedTrace(req[r].token)
                /\ w[r].body = ExpectedBody(req[r].token)

C10_Witness ==
    /\ req[1].token # req[2].token
    /\ state[1] = "running"
    /\ state[2] = "running"
    /\ Len(stack[1]) >= 2
    /\ Len(stack[2]) >= 2
    /\ w[1].body # <<>>
    /\ w[2].body # <<>>
    /\ w[1].body # w[2].body

=============================================================================
